---- MODULE Spec2Model ----
(***************************************************************************)
(* rt890-flash: host side of the Radtel RT-890 UART service protocol.      *)
(* The model follows src/src/main.rs (orchestration) and src/src/uart.rs   *)
(* (framing and commands).  A frame is a sequence of bytes; command[0] of  *)
(* the source is command[1] here.                                          *)
(***************************************************************************)
EXTENDS Integers, Sequences, FiniteSets, TLC

\* ------------------------------------------------------------ constants
CHUNK_LENGTH == 128
FIRMWARE_SIZE == 60416
SPI_FLASH_SIZE == 4194304
\* for offset in 0..32768 (exclusive upper end of the dump loop)
DUMP_CHUNKS == 32768
\* the acknowledgement byte the commands match on
ACK == 6
\* opcodes written into command[0]
OP_ERASE == 57
OP_WRITEFLASH == 87
OP_READSPI == 82
\* command[3] of the erase frame
ERASE_MAGIC == 85
\* exit status of a Rust process that panicked
PANIC_EXIT == 101

\* ------------------------------------------------------------ model bounds
\* input images are drawn from the patterns 0 .. NumImages-1
NumImages == 2
\* input file lengths range over expected size -SizeSlack .. +SizeSlack
SizeSlack == 1
\* frames handed to checksum and verify on their own are 1 .. MaxFrameLen
\* bytes long
MaxFrameLen == 3
\* argument vectors hold the executable name and 0 .. MaxArgs arguments
MaxArgs == 5

\* ------------------------------------------------------------ inputs
\* Byte i of the input image (or of the device's SPI flash) under pattern
\* img.  Pattern 0 is the constant 0xAA image; the others vary with the byte
\* position, the chunk and the 64 KiB page, so that a wrong slice shows.
ImageByte(img, i) ==
    IF img = 0 THEN 170
    ELSE (img * (i + (i \div 128) + (i \div 65536))) % 256

\* image[offset .. offset+CHUNK_LENGTH]
Slice(img, offset) == [j \in 1..CHUNK_LENGTH |-> ImageByte(img, offset + j - 1)]

\* bytes the device may answer a one-byte read with: ACK, NAK (0x15), 0
AckBytes == {ACK, 21, 0}

\* ------------------------------------------------------------ framing
\* longest run of bytes summed one after the other
SumRun == 32

RECURSIVE RangeSum(_, _, _)
\* mathematical sum of s[lo..hi]: runs of up to SumRun bytes are added one
\* after the other, longer ranges are halved (addition is associative), which
\* keeps the evaluation shallow
RangeSum(s, lo, hi) ==
    IF lo > hi THEN 0
    ELSE IF hi - lo >= SumRun
    THEN RangeSum(s, lo, (lo + hi) \div 2) + RangeSum(s, (lo + hi) \div 2 + 1, hi)
    ELSE s[lo] + RangeSum(s, lo + 1, hi)

\* the loop `for byte in command.iter().take(n) { sum += byte }`, unwrapped
ByteSum(s, n) == RangeSum(s, 1, n)

\* `sum += byte` on a u8 overflows when the running sum passes 255.  Bytes
\* are non-negative, so some partial sum overflows iff the whole sum does.
SumOverflows(command) == ByteSum(command, Len(command) - 1) > 255

\* uart.rs checksum: command[last_idx] = sum (the wrapped u8 sum)
checksum(command) ==
    [command EXCEPT ![Len(command)] = ByteSum(command, Len(command) - 1) % 256]

\* uart.rs verify: command[last_idx] == calculated_sum
verify(command) ==
    command[Len(command)] = ByteSum(command, Len(command) - 1) % 256

\* ((offset >> 8) & 0xFF) as u8 and ((offset) & 0xFF) as u8
OffsetHi(offset) == (offset \div 256) % 256
OffsetLo(offset) == offset % 256

\* the erase frame with 0x55 written to command[2] in place of command[3]
EraseCommand_Magic2 == <<OP_ERASE, 0, ERASE_MAGIC, 0, 0>>

\* command_eraseflash: [0u8; 5] with command[0] and command[3] set, before
\* checksum
EraseCommand == <<OP_ERASE, 0, 0, ERASE_MAGIC, 0>>

\* command_writeflash: [0u8; 132] with command[0..2] set and
\* fw[offset..offset+CHUNK_LENGTH] copied to command[3..131], before checksum
WriteFlashCommand(offset, fw) ==
    <<OP_WRITEFLASH, OffsetHi(offset), OffsetLo(offset)>>
        \o Slice(fw, offset) \o <<0>>

\* ------------------------------------------------------------ state
VARIABLES
    args,             \* the argument vector; args[1] is the executable name
    op,               \* "flash" (-f), "restore" (-r) or "dump" (-d)
    calib_only,       \* -c given with -r
    overflow_checks,  \* build profile: does u8 `+=` panic on overflow?
    fileLen,          \* length of the input file; -1: fs::read fails
    img,              \* pattern of the input image / of the device's flash
    pc,               \* position in the program
    offset,           \* the loop variable `offset`
    spi_ranges,       \* the region table selected by restore_spi_flash
    rangeIdx,         \* position of `for spi_range in spi_ranges`
    tx,               \* the last frame written to the port
    txArg,            \* the offset argument of the command that wrote tx
    sent,             \* frames written to the port, counted by opcode
    acked,            \* frames answered with ACK, counted by opcode
    txBytes,          \* bytes written to the port
    rxBytes,          \* bytes read from the port since the last frame was written
    rx,               \* the last response read from the port
    reads,            \* read_exact calls made for the outstanding request
    naks,             \* responses that were not ACK, and failed reads/writes
    ret,              \* what the last uart command returned, "none" while it runs
    fileChunks,       \* chunks appended to the dump's output file
    lastData,         \* the last chunk appended to the output file
    result,           \* what the operation returned to main
    panicMsg,         \* the panic that ended the process, "" if none
    report,           \* the completion line main printed, "" if none
    exit              \* exit status, -1 while running

vars == <<args, op, calib_only, overflow_checks, fileLen, img, pc, offset,
          spi_ranges, rangeIdx, tx, txArg, sent, acked, txBytes, rxBytes, rx,
          reads, naks, ret, fileChunks, lastData, result, panicMsg, report,
          exit>>

inputs == <<args, op, calib_only, overflow_checks, fileLen, img>>
wire == <<tx, txArg, sent, acked, txBytes, rxBytes, rx, reads, naks, ret>>
outfile == <<fileChunks, lastData>>
restoreLoop == <<spi_ranges, rangeIdx>>

\* main.rs 108-110: the calibration-only table
CalibRanges == << [cmd |-> 72, offset |-> 3928064, size |-> 4096] >>

\* the full-restore table with the 0x43 region cut short by 14 chunks
FullRanges_Short43 == <<
    [cmd |-> 64, offset |-> 0,       size |-> 2949120],
    [cmd |-> 65, offset |-> 2949120, size |-> 163840],
    [cmd |-> 66, offset |-> 3112960, size |-> 139264],
    [cmd |-> 67, offset |-> 3252224, size |-> 6400],
    [cmd |-> 71, offset |-> 3887104, size |-> 40960],
    [cmd |-> 72, offset |-> 3928064, size |-> 4096],
    [cmd |-> 73, offset |-> 3936256, size |-> 40960],
    [cmd |-> 75, offset |-> 4030464, size |-> 40960],
    [cmd |-> 76, offset |-> 3260416, size |-> 626688] >>

\* the full-restore table with the 0x41 region starting one chunk early, on
\* the last chunk of the 0x40 region
FullRanges_Overlap41 == <<
    [cmd |-> 64, offset |-> 0,       size |-> 2949120],
    [cmd |-> 65, offset |-> 2948992, size |-> 163840],
    [cmd |-> 66, offset |-> 3112960, size |-> 139264],
    [cmd |-> 67, offset |-> 3252224, size |-> 8192],
    [cmd |-> 71, offset |-> 3887104, size |-> 40960],
    [cmd |-> 72, offset |-> 3928064, size |-> 4096],
    [cmd |-> 73, offset |-> 3936256, size |-> 40960],
    [cmd |-> 75, offset |-> 4030464, size |-> 40960],
    [cmd |-> 76, offset |-> 3260416, size |-> 626688] >>

\* main.rs 112-122: the full-restore table
FullRanges == <<
    [cmd |-> 64, offset |-> 0,       size |-> 2949120],
    [cmd |-> 65, offset |-> 2949120, size |-> 163840],
    [cmd |-> 66, offset |-> 3112960, size |-> 139264],
    [cmd |-> 67, offset |-> 3252224, size |-> 8192],
    [cmd |-> 71, offset |-> 3887104, size |-> 40960],
    [cmd |-> 72, offset |-> 3928064, size |-> 4096],
    [cmd |-> 73, offset |-> 3936256, size |-> 40960],
    [cmd |-> 75, offset |-> 4030464, size |-> 40960],
    [cmd |-> 76, offset |-> 3260416, size |-> 626688] >>

Opcodes == {OP_ERASE, OP_WRITEFLASH, OP_READSPI}
              \cup {FullRanges[i].cmd : i \in 1..Len(FullRanges)}

ExpectedSize(o) == IF o = "flash" THEN FIRMWARE_SIZE ELSE SPI_FLASH_SIZE

FileLens(o) ==
    {-1} \cup ((ExpectedSize(o) - SizeSlack) .. (ExpectedSize(o) + SizeSlack))

\* nothing was written, read, returned or printed yet
InitIdle ==
    /\ overflow_checks \in BOOLEAN
    /\ offset = 0
    /\ spi_ranges = <<>>
    /\ rangeIdx = 0
    /\ txArg = 0
    /\ sent = [c \in Opcodes |-> 0]
    /\ acked = [c \in Opcodes |-> 0]
    /\ txBytes = 0
    /\ rxBytes = 0
    /\ rx = <<>>
    /\ reads = 0
    /\ naks = 0
    /\ ret = "none"
    /\ fileChunks = 0
    /\ lastData = <<>>
    /\ result = "none"
    /\ panicMsg = ""
    /\ report = ""
    /\ exit = -1

\* an operation is about to open its port
InitCommon ==
    /\ img \in 0..(NumImages - 1)
    /\ pc = "open"
    /\ tx = <<>>
    /\ InitIdle

InitFlash ==
    /\ args = <<"rt890-flash", "-p", "PORT", "-f", "FILE">>
    /\ op = "flash"
    /\ calib_only = FALSE
    /\ fileLen \in FileLens("flash")
    /\ InitCommon

\* ------------------------------------------------------------ process end
\* panic!/expect: the process ends with the panic message and status 101
Panic(msg) ==
    /\ pc' = "exited"
    /\ panicMsg' = msg
    /\ exit' = PANIC_EXIT
    /\ UNCHANGED <<inputs, offset, restoreLoop, outfile, result, report>>

\* ------------------------------------------------------------ transport
\* checksum(&mut command); port.write_all(&command)?; as called with the
\* offset argument arg from the orchestrator at `msg`.  checksum panics on
\* overflow in a build with overflow checks; write_all delivers the frame or
\* fails, and a failure (Err) is the orchestrator's panic.
SendFrame(command, arg, nextpc, msg) ==
    IF overflow_checks /\ SumOverflows(command)
    THEN /\ Panic("attempt to add with overflow")
         /\ UNCHANGED wire
    ELSE \/ /\ tx' = checksum(command)
            /\ txArg' = arg
            /\ sent' = [sent EXCEPT ![command[1]] = @ + 1]
            /\ txBytes' = txBytes + Len(command)
            /\ reads' = 0
            /\ rxBytes' = 0
            /\ ret' = "none"
            /\ pc' = nextpc
            /\ UNCHANGED <<inputs, offset, restoreLoop, outfile, result,
                           panicMsg, report, exit, rx, naks, acked>>
         \/ /\ Panic(msg)
            /\ naks' = naks + 1
            /\ ret' = "Err"
            /\ UNCHANGED <<tx, txArg, sent, acked, txBytes, rxBytes, rx, reads>>

\* ------------------------------------------------------------ flash_firmware
ERASE_MSG == "Failed to erase MCU flash. Ensure the radio is in bootloader mode."
WRITE_MSG == "Failed to write firmware to MCU flash. Ensure your radio is firmly connected."
OPEN_MSG == "Failed to open port. Are you running with root/admin privileges?"

\* SerialPort::builder()...open(port).expect(..)
OpenPort ==
    /\ pc = "open"
    /\ \/ /\ pc' = "read_file"
          /\ UNCHANGED <<inputs, offset, restoreLoop, wire, outfile, result,
                         panicMsg, report, exit>>
       \/ /\ Panic(OPEN_MSG)
          /\ UNCHANGED wire

\* FlashReadFile with the size check `f.len() < FIRMWARE_SIZE` in place of
\* `f.len() != FIRMWARE_SIZE`
FlashReadFile_LooseGate ==
    /\ op = "flash"
    /\ pc = "read_file"
    /\ IF fileLen = -1
       THEN Panic("fs::read") /\ UNCHANGED wire
       ELSE IF fileLen < FIRMWARE_SIZE
       THEN /\ result' = "Ok(false)"
            /\ pc' = "report"
            /\ UNCHANGED <<inputs, offset, restoreLoop, wire, outfile,
                           panicMsg, report, exit>>
       ELSE /\ pc' = "erase_send"
            /\ UNCHANGED <<inputs, offset, restoreLoop, wire, outfile, result,
                           panicMsg, report, exit>>

\* main.rs 148-156: fs::read and the size check
FlashReadFile ==
    /\ op = "flash"
    /\ pc = "read_file"
    /\ IF fileLen = -1
       THEN Panic("fs::read") /\ UNCHANGED wire
       ELSE IF fileLen # FIRMWARE_SIZE
       THEN /\ result' = "Ok(false)"
            /\ pc' = "report"
            /\ UNCHANGED <<inputs, offset, restoreLoop, wire, outfile,
                           panicMsg, report, exit>>
       ELSE /\ pc' = "erase_send"
            /\ UNCHANGED <<inputs, offset, restoreLoop, wire, outfile, result,
                           panicMsg, report, exit>>

\* uart.rs 46-51 under main.rs 158
EraseSend ==
    /\ pc = "erase_send"
    /\ SendFrame(EraseCommand, 0, "erase_recv", ERASE_MSG)

\* EraseRecv with the match of main.rs 158-161 taking Ok(false) like Ok(true)
EraseRecv_IgnoreNak ==
    /\ pc = "erase_recv"
    /\ \/ \E b \in AckBytes :
            /\ rx' = <<b>>
            /\ ret' = IF b = ACK THEN "Ok(true)" ELSE "Ok(false)"
            /\ rxBytes' = rxBytes + 1
            /\ reads' = reads + 1
            /\ offset' = 0
            /\ pc' = "flash_loop"
            /\ acked' = IF b = ACK THEN [acked EXCEPT ![tx[1]] = @ + 1] ELSE acked
            /\ naks' = IF b = ACK THEN naks ELSE naks + 1
            /\ UNCHANGED <<inputs, restoreLoop, outfile, result, panicMsg,
                           report, exit, tx, txArg, sent, txBytes>>
       \/ /\ Panic(ERASE_MSG)
          /\ reads' = reads + 1
          /\ naks' = naks + 1
          /\ ret' = "Err"
          /\ UNCHANGED <<tx, txArg, sent, acked, txBytes, rxBytes, rx>>

\* uart.rs 53-58 and the match of main.rs 158-163
EraseRecv ==
    /\ pc = "erase_recv"
    /\ \/ \E b \in AckBytes :
            /\ rx' = <<b>>
            /\ ret' = IF b = ACK THEN "Ok(true)" ELSE "Ok(false)"
            /\ rxBytes' = rxBytes + 1
            /\ reads' = reads + 1
            /\ IF b = ACK
               THEN /\ offset' = 0
                    /\ pc' = "flash_loop"
                    /\ UNCHANGED <<inputs, restoreLoop, outfile, result,
                                   panicMsg, report, exit, naks>>
                    /\ acked' = [acked EXCEPT ![tx[1]] = @ + 1]
               ELSE /\ UNCHANGED acked
                    /\ Panic(ERASE_MSG)
                    /\ naks' = naks + 1
            /\ UNCHANGED <<tx, txArg, sent, txBytes>>
       \/ /\ Panic(ERASE_MSG)
          /\ reads' = reads + 1
          /\ naks' = naks + 1
          /\ ret' = "Err"
          /\ UNCHANGED <<tx, txArg, sent, acked, txBytes, rxBytes, rx>>

\* FlashSend with the next frame written before the answer to the one just
\* written is read
FlashSend_NoWait ==
    /\ pc = "flash_loop"
    /\ IF offset < FIRMWARE_SIZE
       THEN SendFrame(WriteFlashCommand(offset, img), offset, "flash_loop",
                      WRITE_MSG)
       ELSE /\ result' = "Ok(true)"
            /\ pc' = "report"
            /\ UNCHANGED <<inputs, offset, restoreLoop, wire, outfile,
                           panicMsg, report, exit>>

\* main.rs 165-166 with uart.rs 62-69: one turn of the while loop up to the
\* write, or the return of Ok(true) when the loop ends
FlashSend ==
    /\ pc = "flash_loop"
    /\ IF offset < FIRMWARE_SIZE
       THEN SendFrame(WriteFlashCommand(offset, img), offset, "flash_recv",
                      WRITE_MSG)
       ELSE /\ result' = "Ok(true)"
            /\ pc' = "report"
            /\ UNCHANGED <<inputs, offset, restoreLoop, wire, outfile,
                           panicMsg, report, exit>>

\* FlashRecv without `offset += CHUNK_LENGTH` (main.rs 170)
FlashRecv_NoAdvance ==
    /\ pc = "flash_recv"
    /\ \/ \E b \in AckBytes :
            /\ rx' = <<b>>
            /\ ret' = IF b = ACK THEN "Ok(true)" ELSE "Ok(false)"
            /\ rxBytes' = rxBytes + 1
            /\ reads' = reads + 1
            /\ IF b = ACK
               THEN /\ pc' = "flash_loop"
                    /\ UNCHANGED <<inputs, offset, restoreLoop, outfile, result,
                                   panicMsg, report, exit, naks>>
                    /\ acked' = [acked EXCEPT ![tx[1]] = @ + 1]
               ELSE /\ UNCHANGED acked
                    /\ Panic(WRITE_MSG)
                    /\ naks' = naks + 1
            /\ UNCHANGED <<tx, txArg, sent, txBytes>>
       \/ /\ Panic(WRITE_MSG)
          /\ reads' = reads + 1
          /\ naks' = naks + 1
          /\ ret' = "Err"
          /\ UNCHANGED <<tx, txArg, sent, acked, txBytes, rxBytes, rx>>

\* uart.rs 71-76 and the match of main.rs 166-170
FlashRecv ==
    /\ pc = "flash_recv"
    /\ \/ \E b \in AckBytes :
            /\ rx' = <<b>>
            /\ ret' = IF b = ACK THEN "Ok(true)" ELSE "Ok(false)"
            /\ rxBytes' = rxBytes + 1
            /\ reads' = reads + 1
            /\ IF b = ACK
               THEN /\ offset' = offset + CHUNK_LENGTH
                    /\ pc' = "flash_loop"
                    /\ UNCHANGED <<inputs, restoreLoop, outfile, result,
                                   panicMsg, report, exit, naks>>
                    /\ acked' = [acked EXCEPT ![tx[1]] = @ + 1]
               ELSE /\ UNCHANGED acked
                    /\ Panic(WRITE_MSG)
                    /\ naks' = naks + 1
            /\ UNCHANGED <<tx, txArg, sent, txBytes>>
       \/ /\ Panic(WRITE_MSG)
          /\ reads' = reads + 1
          /\ naks' = naks + 1
          /\ ret' = "Err"
          /\ UNCHANGED <<tx, txArg, sent, acked, txBytes, rxBytes, rx>>

\* main.rs 215-218: the line main prints for what flash_firmware returned
FlashReport ==
    /\ op = "flash"
    /\ pc = "report"
    /\ report' = IF result = "Ok(true)"
                 THEN "Firmware flash complete. Radio should now reboot."
                 ELSE "Specified file is not exactly 60416 bytes"
    /\ pc' = "exited"
    /\ exit' = 0
    /\ UNCHANGED <<inputs, offset, restoreLoop, wire, outfile, result, panicMsg>>

NextFlash ==
    \/ OpenPort
    \/ FlashReadFile
    \/ EraseSend
    \/ EraseRecv
    \/ FlashSend
    \/ FlashRecv
    \/ FlashReport

SpecFlash == InitFlash /\ [][NextFlash]_vars

\* ------------------------------------------------------------ restore_spi_flash
RESTORE_MSG == "Failed to restore SPI flash. Ensure the radio is in normal mode."

\* uart::command_writespiflash, the frame before checksum: the region's
\* opcode, the low 16 bits of the byte offset, image[offset .. offset+128]
WriteSpiCommand(spi_range, off, spi) ==
    <<spi_range.cmd, OffsetHi(off), OffsetLo(off)>> \o Slice(spi, off) \o <<0>>

InitRestore ==
    /\ op = "restore"
    /\ calib_only \in BOOLEAN
    /\ args = IF calib_only
              THEN <<"rt890-flash", "-p", "PORT", "-r", "-c", "FILE">>
              ELSE <<"rt890-flash", "-p", "PORT", "-r", "FILE">>
    /\ fileLen \in FileLens("restore")
    /\ InitCommon

\* main.rs 95-123: fs::read, the size check and the choice of the table
RestoreReadFile ==
    /\ op = "restore"
    /\ pc = "read_file"
    /\ IF fileLen = -1
       THEN Panic("fs::read") /\ UNCHANGED wire
       ELSE IF fileLen # SPI_FLASH_SIZE
       THEN /\ result' = "Ok(false)"
            /\ pc' = "report"
            /\ UNCHANGED <<inputs, offset, restoreLoop, wire, outfile,
                           panicMsg, report, exit>>
       ELSE /\ spi_ranges' = IF calib_only THEN CalibRanges ELSE FullRanges
            /\ rangeIdx' = 0
            /\ pc' = "restore_for"
            /\ UNCHANGED <<inputs, offset, wire, outfile, result,
                           panicMsg, report, exit>>

\* main.rs 125-127 and 138: `for spi_range in spi_ranges` takes the next
\* range and sets offset, or the function returns Ok(true)
RestoreFor ==
    /\ pc = "restore_for"
    /\ IF rangeIdx < Len(spi_ranges)
       THEN /\ rangeIdx' = rangeIdx + 1
            /\ offset' = spi_ranges[rangeIdx + 1].offset
            /\ pc' = "restore_while"
            /\ UNCHANGED <<inputs, spi_ranges, wire, outfile, result,
                           panicMsg, report, exit>>
       ELSE /\ result' = "Ok(true)"
            /\ pc' = "report"
            /\ UNCHANGED <<inputs, offset, restoreLoop, wire, outfile,
                           panicMsg, report, exit>>

\* main.rs 127: let block_length = offset + spi_range.size
block_length ==
    spi_ranges[rangeIdx].offset + spi_ranges[rangeIdx].size

\* main.rs 129-130: one turn of `while offset < block_length` up to the
\* write of the frame
RestoreSend ==
    /\ pc = "restore_while"
    /\ IF offset < block_length
       THEN SendFrame(WriteSpiCommand(spi_ranges[rangeIdx], offset, img),
                      offset, "restore_recv", RESTORE_MSG)
       ELSE /\ pc' = "restore_for"
            /\ UNCHANGED <<inputs, offset, restoreLoop, wire, outfile, result,
                           panicMsg, report, exit>>

\* RestoreRecv with a chunk that was not acknowledged sent again
RestoreRecv_Retry ==
    /\ pc = "restore_recv"
    /\ \/ \E b \in AckBytes :
            /\ rx' = <<b>>
            /\ ret' = IF b = ACK THEN "Ok(true)" ELSE "Ok(false)"
            /\ rxBytes' = rxBytes + 1
            /\ reads' = reads + 1
            /\ offset' = IF b = ACK THEN offset + CHUNK_LENGTH ELSE offset
            /\ pc' = "restore_while"
            /\ acked' = IF b = ACK THEN [acked EXCEPT ![tx[1]] = @ + 1] ELSE acked
            /\ naks' = IF b = ACK THEN naks ELSE naks + 1
            /\ UNCHANGED <<inputs, restoreLoop, outfile, result, panicMsg,
                           report, exit, tx, txArg, sent, txBytes>>
       \/ /\ Panic(RESTORE_MSG)
          /\ reads' = reads + 1
          /\ naks' = naks + 1
          /\ ret' = "Err"
          /\ UNCHANGED <<tx, txArg, sent, acked, txBytes, rxBytes, rx>>

\* the one-byte response of command_writespiflash and the match of
\* main.rs 130-134
RestoreRecv ==
    /\ pc = "restore_recv"
    /\ \/ \E b \in AckBytes :
            /\ rx' = <<b>>
            /\ ret' = IF b = ACK THEN "Ok(true)" ELSE "Ok(false)"
            /\ rxBytes' = rxBytes + 1
            /\ reads' = reads + 1
            /\ IF b = ACK
               THEN /\ offset' = offset + CHUNK_LENGTH
                    /\ pc' = "restore_while"
                    /\ UNCHANGED <<inputs, restoreLoop, outfile, result,
                                   panicMsg, report, exit, naks>>
                    /\ acked' = [acked EXCEPT ![tx[1]] = @ + 1]
               ELSE /\ UNCHANGED acked
                    /\ Panic(RESTORE_MSG)
                    /\ naks' = naks + 1
            /\ UNCHANGED <<tx, txArg, sent, txBytes>>
       \/ /\ Panic(RESTORE_MSG)
          /\ reads' = reads + 1
          /\ naks' = naks + 1
          /\ ret' = "Err"
          /\ UNCHANGED <<tx, txArg, sent, acked, txBytes, rxBytes, rx>>

\* main.rs 226-236: the line main prints for what restore_spi_flash returned
RestoreReport ==
    /\ op = "restore"
    /\ pc = "report"
    /\ report' = IF result = "Ok(true)"
                 THEN IF calib_only
                      THEN "Calibration restore complete. Reboot the radio now."
                      ELSE "SPI flash restore complete. Reboot the radio now."
                 ELSE "Specified file is not exactly 4194304 bytes"
    /\ pc' = "exited"
    /\ exit' = 0
    /\ UNCHANGED <<inputs, offset, restoreLoop, wire, outfile, result, panicMsg>>

NextRestore ==
    \/ OpenPort
    \/ RestoreReadFile
    \/ RestoreFor
    \/ RestoreSend
    \/ RestoreRecv
    \/ RestoreReport

SpecRestore == InitRestore /\ [][NextRestore]_vars

\* ------------------------------------------------------------ dump_spi_flash
DUMP_MSG == "Ensure the radio is in normal mode."
DUMP_WRITE_MSG == "Failed to dump SPI flash"

\* command_readspiflash: the request frame before checksum
ReadSpiCommand(off) == <<OP_READSPI, OffsetHi(off), OffsetLo(off), 0>>

\* block[3..131].to_vec()
Payload(block) == SubSeq(block, 4, 131)

\* What the device may put on the wire for the chunk at index idx of its
\* flash: the chunk under a correct checksum ("valid"), or the same block with
\* a bit error in the first payload byte ("corrupt"), whose checksum no
\* longer matches.
DevKinds == {"valid", "corrupt"}

DevBlock(kind, idx) ==
    LET good == checksum(<<OP_READSPI, OffsetHi(idx), OffsetLo(idx)>>
                            \o Slice(img, idx * CHUNK_LENGTH) \o <<0>>)
    IN  IF kind = "valid" THEN good
        ELSE [good EXCEPT ![4] = (good[4] + 1) % 256]

\* the blocks the device may answer a read of chunk idx with
DevBlocks(idx) == {DevBlock(kind, idx) : kind \in DevKinds}

InitDump ==
    /\ args = <<"rt890-flash", "-p", "PORT", "-d", "FILE">>
    /\ op = "dump"
    /\ calib_only = FALSE
    /\ fileLen \in {-1, 0}
    /\ InitCommon

\* main.rs 71-74: File::create
DumpCreateFile ==
    /\ op = "dump"
    /\ pc = "read_file"
    /\ IF fileLen = -1
       THEN Panic("File::create") /\ UNCHANGED wire
       ELSE /\ offset' = 0
            /\ pc' = "dump_loop"
            /\ UNCHANGED <<inputs, restoreLoop, wire, outfile, result,
                           panicMsg, report, exit>>

\* main.rs 76-77 with uart.rs 80-86: one turn of `for offset in 0..32768` up
\* to the write of the request, or the return when the range is exhausted
DumpSend ==
    /\ pc = "dump_loop"
    /\ IF offset < DUMP_CHUNKS
       THEN SendFrame(ReadSpiCommand(offset), offset, "dump_recv", DUMP_MSG)
       ELSE /\ result' = "returned"
            /\ pc' = "report"
            /\ UNCHANGED <<inputs, offset, restoreLoop, wire, outfile,
                           panicMsg, report, exit>>

\* main.rs 78-81: Ok(Some(data)): fw.write_all(&data).expect(..), after which
\* the for loop takes the next offset
DumpAppend(data) ==
    \/ /\ fileChunks' = fileChunks + 1
       /\ lastData' = data
       /\ offset' = offset + 1
       /\ pc' = "dump_loop"
       /\ UNCHANGED <<inputs, restoreLoop, result, panicMsg, report, exit>>
    \/ /\ pc' = "exited"
       /\ panicMsg' = DUMP_WRITE_MSG
       /\ exit' = PANIC_EXIT
       /\ UNCHANGED <<inputs, offset, restoreLoop, outfile, result, report>>

\* uart.rs 88-98 under main.rs 77-84: the first read_exact of the response.
\* verify runs the same u8 sum as checksum and panics on overflow in a build
\* with overflow checks.  A block that verifies is returned (the second
\* verify of line 95 sees the same block); one that does not is read again.
DumpRecv ==
    /\ pc = "dump_recv"
    /\ reads' = reads + 1
    /\ UNCHANGED <<tx, txArg, sent, acked, txBytes>>
    /\ \/ \E block \in DevBlocks(offset) :
                /\ rx' = block
                /\ rxBytes' = rxBytes + Len(block)
                /\ UNCHANGED naks
                /\ IF overflow_checks /\ SumOverflows(block)
                   THEN Panic("attempt to add with overflow") /\ UNCHANGED ret
                   ELSE IF verify(block)
                   THEN DumpAppend(Payload(block)) /\ ret' = "Ok(Some)"
                   ELSE /\ pc' = "dump_recv2"
                        /\ UNCHANGED ret
                        /\ UNCHANGED <<inputs, offset, restoreLoop, outfile,
                                       result, panicMsg, report, exit>>
       \/ /\ Panic(DUMP_MSG)
          /\ naks' = naks + 1
          /\ ret' = "Err"
          /\ UNCHANGED <<rxBytes, rx>>

\* uart.rs 92-100 under main.rs 77-84: the second read_exact, made when the
\* first block did not verify.  A block that verifies is returned; otherwise
\* the command returns Ok(None) and the loop breaks.
DumpRecv2 ==
    /\ pc = "dump_recv2"
    /\ reads' = reads + 1
    /\ UNCHANGED <<tx, txArg, sent, acked, txBytes>>
    /\ \/ \E block \in DevBlocks(offset) :
                /\ rx' = block
                /\ rxBytes' = rxBytes + Len(block)
                /\ UNCHANGED naks
                /\ IF overflow_checks /\ SumOverflows(block)
                   THEN Panic("attempt to add with overflow") /\ UNCHANGED ret
                   ELSE IF verify(block)
                   THEN DumpAppend(Payload(block)) /\ ret' = "Ok(Some)"
                   ELSE /\ result' = "returned"
                        /\ ret' = "Ok(None)"
                        /\ pc' = "report"
                        /\ UNCHANGED <<inputs, offset, restoreLoop, outfile,
                                       panicMsg, report, exit>>
       \/ /\ Panic(DUMP_MSG)
          /\ naks' = naks + 1
          /\ ret' = "Err"
          /\ UNCHANGED <<rxBytes, rx>>

\* main.rs 205-206: dump_spi_flash returned
DumpReport ==
    /\ op = "dump"
    /\ pc = "report"
    /\ report' = "SPI flash dump complete"
    /\ pc' = "exited"
    /\ exit' = 0
    /\ UNCHANGED <<inputs, offset, restoreLoop, wire, outfile, result, panicMsg>>

NextDump ==
    \/ OpenPort
    \/ DumpCreateFile
    \/ DumpSend
    \/ DumpRecv
    \/ DumpRecv2
    \/ DumpReport

SpecDump == InitDump /\ [][NextDump]_vars

\* ------------------------------------------------------------ framing alone
\* byte values the frames handed to checksum and verify are made of
FrameBytes == {0, 1, 2, 127, 128, 255}

\* the frames of n bytes over FrameBytes
FramesOfLen(n) == [1..n -> FrameBytes]

\* command: &mut [u8] with command.len() >= 1
Frames == UNION {FramesOfLen(n) : n \in 1..MaxFrameLen}

\* frame with one byte replaced, and frame itself
Mutations(frame) ==
    {frame} \cup {[frame EXCEPT ![i] = b] : i \in 1..Len(frame), b \in FrameBytes}

\* checksum is about to be called on the frame tx
InitFraming ==
    /\ args = <<"rt890-flash">>
    /\ op = "framing"
    /\ calib_only = FALSE
    /\ fileLen = 0
    /\ img = 0
    /\ pc = "checksum"
    /\ tx \in Frames
    /\ InitIdle

\* uart.rs 25-33: checksum(&mut command) on the frame tx
ChecksumCall ==
    /\ pc = "checksum"
    /\ IF overflow_checks /\ SumOverflows(tx)
       THEN /\ Panic("attempt to add with overflow")
            /\ UNCHANGED wire
       ELSE /\ tx' = checksum(tx)
            /\ pc' = "verify"
            /\ UNCHANGED <<inputs, offset, restoreLoop, outfile, result,
                           panicMsg, report, exit, txArg, sent, acked, txBytes,
                           rxBytes, rx, reads, naks, ret>>

\* uart.rs 35-43: verify(&block) on the frame checksum left, or on that
\* frame with one byte changed
VerifyCall ==
    /\ pc = "verify"
    /\ \E block \in Mutations(tx) :
          /\ rx' = block
          /\ IF overflow_checks /\ SumOverflows(block)
             THEN /\ Panic("attempt to add with overflow")
                  /\ UNCHANGED ret
             ELSE /\ ret' = IF verify(block) THEN "true" ELSE "false"
                  /\ pc' = "returned"
                  /\ UNCHANGED <<inputs, offset, restoreLoop, outfile, result,
                                 panicMsg, report, exit>>
          /\ UNCHANGED <<tx, txArg, sent, acked, txBytes, rxBytes, reads, naks>>

NextFraming == ChecksumCall \/ VerifyCall

SpecFraming == InitFraming /\ [][NextFraming]_vars

\* ------------------------------------------------------------ main
USAGE == "Flashing and dumping tool for the Radtel RT-890."

\* the words of an argument vector: the options, and "x" for any other word
\* (a port name or a file name)
Words == {"-l", "-p", "-d", "-f", "-r", "-c", "x"}

\* args().collect(): the executable name followed by 0 .. MaxArgs words
ArgVectors ==
    {<<"rt890-flash">> \o w : w \in UNION {[1..n -> Words] : n \in 0..MaxArgs}}

\* main was started with some argument vector
InitMain ==
    /\ args \in ArgVectors
    /\ op = "none"
    /\ calib_only = FALSE
    /\ fileLen = 0
    /\ img = 0
    /\ pc = "main"
    /\ tx = <<>>
    /\ InitIdle

\* println!("{}", USAGE) and the end of main
PrintUsage ==
    /\ report' = USAGE
    /\ pc' = "exited"
    /\ exit' = 0
    /\ UNCHANGED <<inputs, offset, restoreLoop, wire, outfile, result, panicMsg>>

\* main calls the operation o; the operation starts by opening its port
Call(o, calib) ==
    /\ op' = o
    /\ calib_only' = calib
    /\ pc' = "open"
    /\ UNCHANGED <<args, overflow_checks, fileLen, img, offset, restoreLoop,
                   wire, outfile, result, panicMsg, report, exit>>

\* main.rs 180-244: match args.len() and the matches inside it.  args[k] of
\* the source is args[k + 1] here.
MainArgs ==
    /\ pc = "main"
    /\ IF Len(args) = 2
       THEN IF args[2] # "-l"
            THEN PrintUsage
            ELSE /\ pc' = "list"
                 /\ UNCHANGED <<inputs, offset, restoreLoop, wire, outfile,
                                result, panicMsg, report, exit>>
       ELSE IF Len(args) \in 5..6
       THEN IF args[2] # "-p"
            THEN PrintUsage
            ELSE IF args[4] = "-d"
            THEN IF args[5] # "-c" THEN Call("dump", FALSE) ELSE PrintUsage
            ELSE IF args[4] = "-f"
            THEN IF args[5] # "-c" THEN Call("flash", FALSE) ELSE PrintUsage
            ELSE IF args[4] = "-r"
            THEN IF args[5] # "-c"
                 THEN Call("restore", FALSE)
                 ELSE IF Len(args) > 5
                 THEN Call("restore", TRUE)
                 ELSE /\ Panic("index out of bounds: the len is 5 but the index is 5")
                      /\ UNCHANGED wire
            ELSE PrintUsage
       ELSE PrintUsage

\* main.rs 188-191 with uart.rs 103-105: the ports are listed, or
\* available_ports fails and expect panics
ListPorts ==
    /\ pc = "list"
    /\ \/ /\ report' = "Ports available:"
          /\ pc' = "exited"
          /\ exit' = 0
          /\ UNCHANGED <<inputs, offset, restoreLoop, wire, outfile, result,
                         panicMsg>>
       \/ /\ Panic("No ports found")
          /\ UNCHANGED wire

\* main up to the point where the operation it called has opened its port
NextMain == MainArgs \/ ListPorts \/ OpenPort

SpecMain == InitMain /\ [][NextMain]_vars

\* ------------------------------------------------------------ the tool
Init == InitFlash \/ InitRestore \/ InitDump

Next == NextFlash \/ NextRestore \/ NextDump

Spec == Init /\ [][Next]_vars

\* the positions of the program
Positions ==
    {"open", "read_file", "erase_send", "erase_recv", "flash_loop",
     "flash_recv", "restore_for", "restore_while", "restore_recv",
     "dump_loop", "dump_recv", "dump_recv2", "report", "exited"}

\* the process, not yet ended, moves on to another position
Advance == pc # "exited" /\ pc' \in Positions /\ pc' # pc

\* The tool runs as one sequential process and every blocking call returns
\* (read_exact gives the bytes or fails at the read timeout of 20 s), so a
\* process that has not ended moves on.  Every step of Next changes pc and
\* some step of Next can be taken at every position but "exited", so this is
\* weak fairness of Next, stated on pc.
FairSpec == Spec /\ WF_pc(Advance)

\* flash_firmware and restore_spi_flash, the operations that write to the radio
SpecWrite == (InitFlash \/ InitRestore) /\ [][NextFlash \/ NextRestore]_vars

\* ------------------------------------------------------------ properties
\* nothing was ever written to or read from the port
NoDeviceIO ==
    /\ txBytes = 0
    /\ tx = <<>>
    /\ \A c \in Opcodes : sent[c] = 0 /\ acked[c] = 0
    /\ rxBytes = 0
    /\ rx = <<>>
    /\ reads = 0
    /\ naks = 0

\* the input file was read and its length is not the expected one
WrongSize == fileLen # -1 /\ fileLen # ExpectedSize(op)

\* C1 (size gate): when the firmware file is not exactly 60,416 bytes long
\* (flash_firmware) or the SPI image not exactly 4,194,304 bytes long
\* (restore_spi_flash), no byte is ever written to or read from the port, the
\* only value the operation returns is Ok(false), the size mismatch, and main
\* reports the mismatch.
C1_SizeGate ==
    (op \in {"flash", "restore"} /\ WrongSize) =>
        /\ NoDeviceIO
        /\ result \in {"none", "Ok(false)"}
        /\ (pc = "report" => result = "Ok(false)")
        /\ (pc = "exited" /\ panicMsg = "" =>
                /\ result = "Ok(false)"
                /\ report = IF op = "flash"
                            THEN "Specified file is not exactly 60416 bytes"
                            ELSE "Specified file is not exactly 4194304 bytes")
        /\ (pc = "exited" /\ panicMsg # "" => panicMsg = OPEN_MSG)

\* C1 witness: flash_firmware returned the size mismatch for a file one byte
\* longer than a firmware image
C1_Witness ==
    /\ op = "flash"
    /\ fileLen = FIRMWARE_SIZE + 1
    /\ pc = "exited"
    /\ result = "Ok(false)"

\* C2 (erase gate): a write-flash frame is on the wire only after the one
\* erase frame was written and answered with 0x06; when the erase frame was
\* written and the answer was another byte or a transport error, the process
\* has ended with the bootloader-mode diagnostic and no write-flash frame
\* was written.
C2_EraseGate ==
    op = "flash" =>
        /\ (sent[OP_WRITEFLASH] > 0 =>
                sent[OP_ERASE] = 1 /\ acked[OP_ERASE] = 1)
        /\ (pc \in {"flash_loop", "flash_recv"} =>
                sent[OP_ERASE] = 1 /\ acked[OP_ERASE] = 1)
        /\ (sent[OP_ERASE] = 1 /\ acked[OP_ERASE] = 0 /\ pc # "erase_recv" =>
                /\ pc = "exited"
                /\ panicMsg = ERASE_MSG
                /\ exit = PANIC_EXIT
                /\ report = ""
                /\ sent[OP_WRITEFLASH] = 0
                /\ txBytes = Len(EraseCommand))

\* C2 witness: the erase frame was answered with 0x15 and the process ended
C2_Witness ==
    /\ op = "flash"
    /\ sent[OP_ERASE] = 1
    /\ rx = <<21>>
    /\ panicMsg = ERASE_MSG
    /\ sent[OP_WRITEFLASH] = 0

\* the port was opened, the input file had the expected length, every frame
\* written was answered with 0x06 and no read or write failed, and the
\* process has ended
CleanRunEnded ==
    /\ fileLen = ExpectedSize(op)
    /\ naks = 0
    /\ pc = "exited"
    /\ panicMsg # OPEN_MSG

\* C3 (firmware flash happy path), as claimed: a run of flash_firmware on a
\* 60,416-byte image in which the device acknowledged every frame ends with
\* one erase frame and 472 write-flash frames written, the last of them for
\* byte offset 60,288 and carrying image[60288 .. 60416], and with success
\* returned and reported.
C3_HappyPath ==
    (op = "flash" /\ CleanRunEnded) =>
        /\ result = "Ok(true)"
        /\ panicMsg = ""
        /\ report = "Firmware flash complete. Radio should now reboot."
        /\ sent[OP_ERASE] = 1
        /\ sent[OP_WRITEFLASH] = 472
        /\ acked[OP_WRITEFLASH] = 472
        /\ txArg = 60288
        /\ tx = checksum(<<87, 235, 128>> \o Slice(img, 60288) \o <<0>>)
        /\ txBytes = 5 + 472 * 132

\* a step that writes a frame with opcode c
Writes(c) == sent'[c] = sent[c] + 1

\* C3 under wrapping arithmetic (overflow_checks = FALSE): C3_HappyPath
\* holds, and the k-th write-flash frame (k = 0, 1, ...) follows the
\* acknowledged erase frame, is for byte offset 128 * k and carries
\* image[128k .. 128k + 128] under its modulo-256 checksum.
C3_Wrapping ==
    /\ [](~overflow_checks => C3_HappyPath)
    /\ [][(op = "flash" /\ Writes(OP_WRITEFLASH)) =>
            LET off == CHUNK_LENGTH * sent[OP_WRITEFLASH]
            IN  /\ sent[OP_ERASE] = 1 /\ acked[OP_ERASE] = 1
                /\ acked[OP_WRITEFLASH] = sent[OP_WRITEFLASH]
                /\ off < 60416
                /\ txArg' = off
                /\ tx' = checksum(<<87, (off \div 256) % 256, off % 256>>
                                     \o Slice(img, off) \o <<0>>)]_vars

\* the flash ran to its end under wrapping arithmetic
C3_WrappingWitness ==
    /\ op = "flash" /\ CleanRunEnded /\ ~overflow_checks
    /\ sent[OP_WRITEFLASH] = 472
    /\ result = "Ok(true)"

\* C4 (abort on first failure, no retry): once a frame of flash_firmware or
\* restore_spi_flash was answered with a byte other than 0x06, or a read or
\* write of the port failed, the process has ended in a panic: nothing is
\* reported and nothing returned, the failure is the only one, the frame that
\* failed is the last one written and was written once (every frame before
\* it was acknowledged), and it is the frame of the chunk the loop stood at.
C4_AbortNoRetry ==
    (op \in {"flash", "restore"} /\ naks > 0) =>
        /\ pc = "exited"
        /\ panicMsg \in {ERASE_MSG, WRITE_MSG, RESTORE_MSG}
        /\ exit = PANIC_EXIT
        /\ result = "none"
        /\ report = ""
        /\ naks = 1
        /\ \A c \in Opcodes : sent[c] - acked[c] \in {0, 1}
        /\ Cardinality({c \in Opcodes : sent[c] # acked[c]}) <= 1
        /\ \A c \in Opcodes : sent[c] # acked[c] => tx[1] = c /\ txArg = offset

\* C4 witness: restore_spi_flash stopped at a chunk of the second region
\* that the device answered with 0x15
C4_Witness ==
    /\ op = "restore"
    /\ ~calib_only
    /\ naks = 1
    /\ rx = <<21>>
    /\ sent[64] = 23040
    /\ sent[65] = 2 /\ acked[65] = 1
    /\ pc = "exited"

\* the opcodes of a full restore in wire order, each with its number of frames
C5_Counts == <<
    <<64, 23040>>, <<65, 1280>>, <<66, 1088>>, <<67, 64>>, <<71, 320>>,
    <<72, 32>>, <<73, 320>>, <<75, 320>>, <<76, 4896>> >>

\* C5 (full restore ordering), as claimed: a run of restore_spi_flash without
\* -c on a 4,194,304-byte image in which the device acknowledged every frame
\* ends with 23040, 1280, 1088, 64, 320, 32, 320, 320 and 4896 frames written
\* under the opcodes 0x40, 0x41, 0x42, 0x43, 0x47, 0x48, 0x49, 0x4B and 0x4C,
\* and with success returned and reported.
C5_FullRestore ==
    (op = "restore" /\ ~calib_only /\ CleanRunEnded) =>
        /\ result = "Ok(true)"
        /\ panicMsg = ""
        /\ report = "SPI flash restore complete. Reboot the radio now."
        /\ \A i \in 1..Len(C5_Counts) :
              /\ sent[C5_Counts[i][1]] = C5_Counts[i][2]
              /\ acked[C5_Counts[i][1]] = C5_Counts[i][2]
        /\ txBytes = 31360 * 132

\* C5 under wrapping arithmetic: C5_FullRestore holds, and a frame is written
\* under the i-th opcode of the sequence only when every earlier opcode has
\* all its frames on the wire and no later opcode has any; within one opcode
\* each frame's byte offset is the one before plus 128.
C5_Wrapping ==
    /\ [](~overflow_checks => C5_FullRestore)
    /\ [][(op = "restore" /\ ~calib_only) =>
            \A i \in 1..Len(C5_Counts) :
                Writes(C5_Counts[i][1]) =>
                    /\ tx'[1] = C5_Counts[i][1]
                    /\ sent[C5_Counts[i][1]] < C5_Counts[i][2]
                    /\ \A j \in 1..Len(C5_Counts) :
                          /\ (j < i => sent[C5_Counts[j][1]] = C5_Counts[j][2])
                          /\ (j > i => sent[C5_Counts[j][1]] = 0)
                    /\ (sent[C5_Counts[i][1]] > 0 =>
                          tx[1] = tx'[1] /\ txArg' = txArg + CHUNK_LENGTH)]_vars

\* the full restore ran to its end under wrapping arithmetic
C5_WrappingWitness ==
    /\ op = "restore" /\ ~calib_only /\ CleanRunEnded /\ ~overflow_checks
    /\ sent[76] = 4896
    /\ result = "Ok(true)"

\* C6 (calibration-only restore), as claimed: a run of restore_spi_flash with
\* -c on a 4,194,304-byte image in which the device acknowledged every frame
\* ends with exactly 32 frames written, all under opcode 0x48, the last for
\* byte offset 3,932,032.
C6_CalibRestore ==
    (op = "restore" /\ calib_only /\ CleanRunEnded) =>
        /\ result = "Ok(true)"
        /\ sent[72] = 32
        /\ \A c \in Opcodes \ {72} : sent[c] = 0
        /\ txBytes = 32 * 132
        /\ tx[1] = 72
        /\ txArg = 3932032

\* C6 under wrapping arithmetic: C6_CalibRestore holds and the k-th frame
\* (k = 0, 1, ...) is written under opcode 0x48 for byte offset
\* 3,928,064 + 128 * k.
C6_Wrapping ==
    /\ [](~overflow_checks => C6_CalibRestore)
    /\ [][(op = "restore" /\ calib_only /\ txBytes' # txBytes) =>
            /\ Writes(72)
            /\ tx'[1] = 72
            /\ txArg' = 3928064 + CHUNK_LENGTH * sent[72]
            /\ sent[72] < 32]_vars

\* the calibration-only restore ran to its end under wrapping arithmetic
C6_WrappingWitness ==
    /\ op = "restore" /\ calib_only /\ CleanRunEnded /\ ~overflow_checks
    /\ sent[72] = 32
    /\ result = "Ok(true)"

\* ------------------------------------------------------------ region measure
Min(S) == CHOOSE x \in S : \A y \in S : x <= y

\* the start and end points of the regions of table t
Endpoints(t) ==
    {t[i].offset : i \in DOMAIN t} \cup {t[i].offset + t[i].size : i \in DOMAIN t}

\* byte x lies in some region of t
Covered(t, x) ==
    \E i \in DOMAIN t : t[i].offset <= x /\ x < t[i].offset + t[i].size

RECURSIVE MeasureFrom(_, _)
\* bytes covered by t from the least point of E on, E a set of endpoints of t
MeasureFrom(t, E) ==
    IF E = {} THEN 0
    ELSE LET x == Min(E)
             rest == E \ {x}
         IN  (IF rest # {} /\ Covered(t, x) THEN Min(rest) - x ELSE 0)
                + MeasureFrom(t, rest)

\* measure of the union of [offset, offset + size) over the regions of t
UnionMeasure(t) == MeasureFrom(t, Endpoints(t))

\* restore_spi_flash has selected the full-restore table
FullTableSelected == op = "restore" /\ ~calib_only /\ spi_ranges # <<>>

\* C7 as claimed: the union of the regions of the full-restore table
\* measures 4,012,288 bytes, every size is a multiple of 128 and no region
\* ends beyond 4,194,304.
C7_AsClaimed ==
    FullTableSelected =>
        /\ UnionMeasure(spi_ranges) = 4012288
        /\ \A i \in DOMAIN spi_ranges :
              /\ spi_ranges[i].size % 128 = 0
              /\ spi_ranges[i].offset + spi_ranges[i].size <= 4194304

\* C7 (restore region coverage), amended: the union of the regions of the
\* full-restore table measures 4,014,080 bytes, every size is a multiple of
\* 128 and no region ends beyond 4,194,304.
C7_Coverage ==
    FullTableSelected =>
        /\ UnionMeasure(spi_ranges) = 4014080
        /\ \A i \in DOMAIN spi_ranges :
              /\ spi_ranges[i].size % 128 = 0
              /\ spi_ranges[i].offset + spi_ranges[i].size <= 4194304

\* C7 witness: the full table is in use and a frame of its second region is
\* on the wire
C7_Witness ==
    /\ FullTableSelected
    /\ Len(spi_ranges) = 9
    /\ rangeIdx = 2
    /\ pc = "restore_recv"

\* ------------------------------------------------------------ dump properties
\* the last byte of block b is the modulo-256 sum of the bytes before it
SumMatches(b) == b[Len(b)] = ByteSum(b, Len(b) - 1) % 256

\* dump_spi_flash got its port and its output file, no read or write of the
\* port failed and no write to the output file failed
DumpUndisturbed ==
    /\ op = "dump"
    /\ fileLen # -1
    /\ naks = 0
    /\ panicMsg \notin {OPEN_MSG, DUMP_WRITE_MSG}

\* C8 (dump termination), as claimed: when the process has ended and the last
\* block the device sent, for chunk index k, fails its checksum (so that the
\* blocks for 0 .. k-1 were accepted), the dump stopped without error after
\* two reads for index k, exactly k requests went before the one for k and
\* none after it, and the output file holds k chunks, the last of them bytes
\* 3..130 of the device's block for index k-1.
C8_DumpTermination ==
    (DumpUndisturbed /\ pc = "exited" /\ rx # <<>> /\ ~SumMatches(rx)) =>
        /\ panicMsg = ""
        /\ exit = 0
        /\ result = "returned"
        /\ reads = 2
        /\ sent[OP_READSPI] = txArg + 1
        /\ offset = txArg
        /\ fileChunks = txArg
        /\ (txArg > 0 => lastData = Slice(img, (txArg - 1) * 128))

\* a step that appends a chunk to the output file
Appends == fileChunks' = fileChunks + 1

\* C8 under wrapping arithmetic: C8_DumpTermination holds, and every chunk
\* appended to the output file is bytes 3..130 of a block that passes its
\* checksum, read for the chunk index that equals the number of chunks
\* already in the file.
C8_Wrapping ==
    /\ [](~overflow_checks => C8_DumpTermination)
    /\ [][(op = "dump" /\ Appends) =>
            /\ txArg = fileChunks
            /\ offset = fileChunks
            /\ SumMatches(rx')
            /\ lastData' = SubSeq(rx', 4, 131)
            /\ lastData' = Slice(img, fileChunks * 128)]_vars

\* the dump stopped at chunk index 100 under wrapping arithmetic
C8_WrappingWitness ==
    /\ DumpUndisturbed /\ ~overflow_checks
    /\ pc = "exited"
    /\ result = "returned"
    /\ txArg = 100
    /\ fileChunks = 100
    /\ ~SumMatches(rx)

\* C9 (a successful dump writes exactly 4,194,304 bytes), as claimed: when
\* main has reported the dump as complete, the output file holds 32768
\* chunks, one for each chunk index.
C9_CompleteDump ==
    (op = "dump" /\ report = "SPI flash dump complete") =>
        /\ fileChunks = 32768
        /\ offset = 32768
        /\ sent[OP_READSPI] = 32768

\* C10 (read-retry), as claimed, on the states in which command_readspiflash
\* is not between its two reads: a request is written once per chunk index
\* and read for at most twice; when the block last read passes its checksum
\* its bytes 3..130 were returned (and appended, unless the write to the
\* output file failed); when two blocks were read and the second fails its
\* checksum too, None was returned and the dump stopped.
C10_ReadRetry ==
    (op = "dump" /\ fileLen # -1) =>
        /\ reads <= 2
        /\ (sent[OP_READSPI] > 0 => sent[OP_READSPI] = txArg + 1)
        /\ (reads >= 1 /\ pc # "dump_recv2" /\ naks = 0 /\ SumMatches(rx)
                /\ panicMsg # DUMP_WRITE_MSG =>
              /\ lastData = SubSeq(rx, 4, 131)
              /\ fileChunks = txArg + 1
              /\ panicMsg = "")
        /\ (reads = 2 /\ naks = 0 /\ ~SumMatches(rx) =>
              /\ result = "returned"
              /\ panicMsg = ""
              /\ fileChunks = txArg)

\* C10 under wrapping arithmetic: C10_ReadRetry holds; a first block that
\* passes its checksum is returned after that one read, one that fails is
\* followed by a second read without a second request; a second block that
\* passes is returned, one that fails ends the command with None.
C10_Wrapping ==
    /\ [](~overflow_checks => C10_ReadRetry)
    /\ [][(op = "dump" /\ ~overflow_checks /\ rxBytes' > rxBytes) =>
            /\ sent' = sent
            /\ Len(rx') = 132
            /\ pc \in {"dump_recv", "dump_recv2"}
            /\ reads' = (IF pc = "dump_recv" THEN 1 ELSE 2)
            /\ IF SumMatches(rx')
               THEN \/ pc' = "dump_loop" /\ lastData' = SubSeq(rx', 4, 131)
                    \/ panicMsg' = DUMP_WRITE_MSG
               ELSE /\ UNCHANGED outfile
                    /\ IF pc = "dump_recv"
                       THEN pc' = "dump_recv2" /\ result' = result
                       ELSE result' = "returned"]_vars

\* under wrapping arithmetic a second block was accepted after a first that
\* failed its checksum
C10_WrappingWitness ==
    /\ op = "dump" /\ ~overflow_checks
    /\ pc = "dump_loop"
    /\ reads = 2
    /\ SumMatches(rx)
    /\ lastData = SubSeq(rx, 4, 131)
    /\ fileChunks = 3

\* ------------------------------------------------------------ framing properties
RECURSIVE WrapSum(_, _)
\* the first n bytes of s added up in 8 bits, each addition wrapping at 256
WrapSum(s, n) == IF n = 0 THEN 0 ELSE (WrapSum(s, n - 1) + s[n]) % 256

\* the last byte of frame f is the 8-bit wrapping sum of the bytes before it
WrapSumMatches(f) == f[Len(f)] = WrapSum(f, Len(f) - 1)

\* C11 (checksum law with wrap), as claimed: checksum and verify complete for
\* every frame of one byte or more; checksum leaves in the last byte the sum
\* of the bytes before it modulo 256; verify returns true exactly when the
\* last byte of its frame equals that sum, and so returns true for the frame
\* checksum just left.
C11_ChecksumLaw ==
    op = "framing" =>
        /\ panicMsg = ""
        /\ (pc \in {"verify", "returned"} => WrapSumMatches(tx))
        /\ (pc = "returned" =>
                /\ (ret = "true") <=> WrapSumMatches(rx)
                /\ (rx = tx => ret = "true"))

\* C11 under wrapping arithmetic: C11_ChecksumLaw holds, checksum changes
\* the last byte of its frame and no other, and the frame [0xFF, 0x02, _]
\* gets the checksum 0x01.
C11_Wrapping ==
    /\ [](~overflow_checks => C11_ChecksumLaw)
    /\ [](checksum(<<255, 2, 0>>) = <<255, 2, 1>>)
    /\ [][(op = "framing" /\ ~overflow_checks /\ pc = "checksum") =>
            /\ pc' = "verify"
            /\ Len(tx') = Len(tx)
            /\ \A i \in 1..(Len(tx) - 1) : tx'[i] = tx[i]]_vars

\* under wrapping arithmetic verify accepted the frame checksum left for
\* [0xFF, 0x02, _]
C11_WrappingWitness ==
    /\ op = "framing" /\ ~overflow_checks
    /\ pc = "returned"
    /\ tx = <<255, 2, 1>>
    /\ rx = tx
    /\ ret = "true"

\* ------------------------------------------------------------ command properties
\* the frame f is opcode c, the low 16 bits of byte offset off big-endian,
\* image[at .. at + 128] and the modulo-256 sum of those 131 bytes
IsChunkFrame(f, c, off, at) ==
    /\ Len(f) = 132
    /\ f[1] = c
    /\ f[2] = (off \div 256) % 256
    /\ f[3] = off % 256
    /\ \A j \in 1..128 : f[3 + j] = ImageByte(img, at + j - 1)
    /\ f[132] = ByteSum(f, 131) % 256

\* a one-byte command: while it runs nothing was read for its frame; it
\* returned true only after reading exactly the one byte 0x06 and false only
\* after reading exactly one other byte (so, for a byte read, true iff 0x06);
\* an error of the write or the read ended the process
OneByteAnswer ==
    /\ reads <= 1
    /\ rxBytes <= 1
    /\ ret \in {"none", "Ok(true)", "Ok(false)", "Err"}
    /\ (ret = "none" => rxBytes = 0 /\ reads = 0)
    /\ (ret = "Ok(true)" => rxBytes = 1 /\ reads = 1 /\ rx = <<ACK>>)
    /\ (ret = "Ok(false)" =>
            rxBytes = 1 /\ reads = 1 /\ Len(rx) = 1 /\ rx # <<ACK>>)
    /\ (ret = "Err" => pc = "exited" /\ panicMsg # "")

\* C12 (write-flash frame), as claimed: every call of command_writeflash the
\* loop makes, for byte offset 0, 128, ... below 60,416, writes a frame of
\* exactly 132 bytes: 0x57, the offset big-endian, image[offset .. offset+128]
\* and the modulo-256 sum of those bytes; it then reads exactly one byte and
\* returns true iff the byte is 0x06.
C12_WriteFlashFrame ==
    op = "flash" =>
        /\ panicMsg # "attempt to add with overflow"
        /\ (sent[OP_WRITEFLASH] > 0 =>
                /\ txArg % 128 = 0 /\ txArg + 128 <= 60416
                /\ IsChunkFrame(tx, 87, txArg, txArg)
                /\ txBytes = 5 + 132 * sent[OP_WRITEFLASH]
                /\ OneByteAnswer)

\* C12 under wrapping arithmetic: C12_WriteFlashFrame holds, and the frame
\* for byte offset 0x0180 with a payload of 128 zero bytes ends in 0xD8.
C12_Wrapping ==
    /\ [](~overflow_checks => C12_WriteFlashFrame)
    /\ [](checksum(<<87, OffsetHi(384), OffsetLo(384)>>
                      \o [j \in 1..128 |-> 0] \o <<0>>)
            = <<87, 1, 128>> \o [j \in 1..128 |-> 0] \o <<216>>)

\* under wrapping arithmetic the frame for byte offset 0x0180 was answered
\* with 0x15 and command_writeflash returned false
C12_WrappingWitness ==
    /\ op = "flash" /\ ~overflow_checks
    /\ sent[OP_WRITEFLASH] = 4
    /\ txArg = 384
    /\ rx = <<21>>
    /\ ret = "Ok(false)"

\* C13 (write-SPI frame), as claimed: every call of command_writespiflash the
\* restore loop makes, for a region of the table and a byte offset of that
\* region, writes a frame of 132 bytes: the region's opcode, the low 16 bits
\* of the byte offset big-endian, image[offset .. offset+128] sliced with the
\* whole offset, and the modulo-256 sum of those bytes; it then reads one
\* byte and returns true iff the byte is 0x06.
C13_WriteSpiFrame ==
    op = "restore" =>
        /\ panicMsg # "attempt to add with overflow"
        /\ (txBytes > 0 =>
                /\ \E i \in 1..rangeIdx :
                      /\ tx[1] = spi_ranges[i].cmd
                      /\ spi_ranges[i].offset <= txArg
                      /\ txArg + 128 <= spi_ranges[i].offset + spi_ranges[i].size
                      /\ (txArg - spi_ranges[i].offset) % 128 = 0
                /\ IsChunkFrame(tx, tx[1], txArg % 65536, txArg)
                /\ OneByteAnswer)

\* C13 under wrapping arithmetic: C13_WriteSpiFrame holds.
C13_Wrapping == [](~overflow_checks => C13_WriteSpiFrame)

\* under wrapping arithmetic the second frame of region 0x41, for byte offset
\* 2,949,248 (0x2D0080, on the wire 0x00 0x80), was acknowledged
C13_WrappingWitness ==
    /\ op = "restore" /\ ~overflow_checks
    /\ sent[65] = 2
    /\ tx[1] = 65
    /\ txArg = 2949248
    /\ tx[2] = 0 /\ tx[3] = 128
    /\ tx[4] = ImageByte(img, 2949248)
    /\ img = 1
    /\ ret = "Ok(true)"

\* C14 (read-SPI request and payload), as claimed: every call of
\* command_readspiflash the dump loop makes, for chunk index 0 .. 32767,
\* writes exactly the four bytes 0x52, index >> 8, index & 0xFF and their
\* modulo-256 sum, and when it accepts a 132-byte response it returns that
\* response's bytes 3..130, 128 bytes, whatever bytes 0..2 are.
C14_ReadSpiFrame ==
    op = "dump" =>
        /\ panicMsg # "attempt to add with overflow"
        /\ (sent[OP_READSPI] > 0 =>
                /\ txArg \in 0..32767
                /\ tx = <<82, txArg \div 256, txArg % 256,
                          (82 + (txArg \div 256) + (txArg % 256)) % 256>>
                /\ txBytes = 4 * sent[OP_READSPI])
        /\ (ret = "Ok(Some)" /\ panicMsg # DUMP_WRITE_MSG =>
                /\ Len(rx) = 132
                /\ Len(lastData) = 128
                /\ \A j \in 1..128 : lastData[j] = rx[3 + j])

\* C14 under wrapping arithmetic: C14_ReadSpiFrame holds, and the request
\* for chunk index 0x0010 is [0x52, 0x00, 0x10, 0x62].
C14_Wrapping ==
    /\ [](~overflow_checks => C14_ReadSpiFrame)
    /\ [](checksum(ReadSpiCommand(16)) = <<82, 0, 16, 98>>)

\* under wrapping arithmetic the response to the request for chunk index
\* 0x0010 was accepted and its payload returned
C14_WrappingWitness ==
    /\ op = "dump" /\ ~overflow_checks
    /\ txArg = 16
    /\ tx = <<82, 0, 16, 98>>
    /\ ret = "Ok(Some)"
    /\ fileChunks = 17
    /\ lastData = SubSeq(rx, 4, 131)

\* command_eraseflash is the last command that was called
EraseIsLast ==
    /\ op = "flash"
    /\ sent[OP_ERASE] = 1
    /\ sent[OP_WRITEFLASH] = 0
    /\ panicMsg \notin {WRITE_MSG, "attempt to add with overflow"}

\* C15 (erase command): command_eraseflash is called at most once and always
\* completes its checksum; it writes exactly the five bytes 0x39, 0x00, 0x00,
\* 0x55, 0x8E, then reads exactly one byte and returns Ok(true) when the byte
\* is 0x06 and Ok(false), not an error, when it is any other byte.
C15_EraseCommand ==
    /\ (op = "flash" => sent[OP_ERASE] <= 1)
    /\ (op = "flash" /\ sent[OP_ERASE] = 0 =>
            panicMsg # "attempt to add with overflow")
    /\ (EraseIsLast =>
            /\ tx = <<57, 0, 0, 85, 142>>
            /\ txBytes = 5
            /\ OneByteAnswer
            /\ (rxBytes = 1 /\ rx = <<6>> => ret = "Ok(true)")
            /\ (rxBytes = 1 /\ rx # <<6>> => ret = "Ok(false)"))

\* C15 witness: the erase frame was answered with the byte 0x00 and
\* command_eraseflash returned Ok(false)
C15_Witness ==
    /\ EraseIsLast
    /\ tx = <<57, 0, 0, 85, 142>>
    /\ rx = <<0>>
    /\ ret = "Ok(false)"

\* ------------------------------------------------------------ main properties
\* a is one of the five forms of the usage text: -l; -p PORT -d FILE;
\* -p PORT -f FILE; -p PORT -r FILE; -p PORT -r -c FILE.  The word after
\* -d, -f or -r is a file unless it is "-c".
ValidForm(a) ==
    \/ Len(a) = 2 /\ a[2] = "-l"
    \/ /\ Len(a) = 5
       /\ a[2] = "-p"
       /\ a[4] \in {"-d", "-f", "-r"}
       /\ a[5] # "-c"
    \/ /\ Len(a) = 6
       /\ a[2] = "-p"
       /\ a[4] = "-r"
       /\ a[5] = "-c"

\* main printed the usage text and ended with status 0; no operation was
\* called, no port opened and nothing written to or read from a port
UsagePrinted ==
    /\ pc = "exited"
    /\ report = USAGE
    /\ exit = 0
    /\ panicMsg = ""
    /\ op = "none"
    /\ NoDeviceIO

\* C16 (usage errors), as claimed: for every argument vector that is not one
\* of the five valid forms, main prints the usage text and ends with exit
\* status 0, without calling an operation, opening a port or panicking.
C16_UsageErrors ==
    (pc # "main" /\ ~ValidForm(args)) => UsagePrinted

\* -p PORT -d|-f|-r FILE followed by one more word
ExtraWord(a) ==
    /\ Len(a) = 6
    /\ a[2] = "-p"
    /\ a[4] \in {"-d", "-f", "-r"}
    /\ a[5] # "-c"

\* -p PORT -r -c with no file
NoFile(a) == Len(a) = 5 /\ a[2] = "-p" /\ a[4] = "-r" /\ a[5] = "-c"

\* What main does with the vectors that are not valid forms: it prints the
\* usage text for all of them but two kinds; with one more word after FILE the
\* operation is called as if the word were not there, and -p PORT -r -c
\* without a file ends in a panic on args[5].
C16_AsBuilt ==
    (pc # "main" /\ ~ValidForm(args)) =>
        IF ExtraWord(args)
        THEN /\ op = (IF args[4] = "-d" THEN "dump"
                       ELSE IF args[4] = "-f" THEN "flash" ELSE "restore")
             /\ ~calib_only
             /\ report = ""
        ELSE IF NoFile(args)
        THEN /\ pc = "exited"
             /\ exit = PANIC_EXIT
             /\ panicMsg = "index out of bounds: the len is 5 but the index is 5"
             /\ op = "none"
        ELSE UsagePrinted

\* -p PORT -d FILE with one more word: dump_spi_flash was called and has
\* opened its port
C16_AsBuiltWitness ==
    /\ args = <<"rt890-flash", "-p", "x", "-d", "x", "x">>
    /\ op = "dump"
    /\ pc = "read_file"

\* ------------------------------------------------------------ exit status
\* C17 (exit status), as claimed: an invocation that ended did so with status
\* 0 when the operation completed successfully or the usage text was printed,
\* and with a non-zero status when it ended in a panic (protocol rejection,
\* transport error, file error) or in the file-size mismatch.
C17_ExitStatus ==
    pc = "exited" =>
        /\ (panicMsg = "" /\ (result \in {"Ok(true)", "returned"} \/ report = USAGE)
                => exit = 0)
        /\ (panicMsg # "" => exit # 0)
        /\ (result = "Ok(false)" => exit # 0)

\* What the exit status is: 101 exactly for the invocations that ended in a
\* panic and 0 for all others, the file-size mismatch among them, which main
\* reports on its way to a normal return.
C17_AsBuilt ==
    pc = "exited" =>
        /\ exit \in {0, PANIC_EXIT}
        /\ (exit = PANIC_EXIT <=> panicMsg # "")
        /\ (exit = 0 => report # "")
        /\ (naks > 0 => exit = PANIC_EXIT)
        /\ (result = "Ok(false)" =>
                exit = 0 /\ report = "Specified file is not exactly 60416 bytes")

\* a firmware file one byte short: the mismatch was reported and the exit
\* status is 0
C17_AsBuiltWitness ==
    /\ op = "flash"
    /\ fileLen = FIRMWARE_SIZE - 1
    /\ pc = "exited"
    /\ result = "Ok(false)"
    /\ exit = 0

\* ------------------------------------------------------------ exchange order
\* frames written, all opcodes together
RECURSIVE SumOver(_, _)
SumOver(f, S) ==
    IF S = {} THEN 0
    ELSE LET c == CHOOSE x \in S : TRUE IN f[c] + SumOver(f, S \ {c})

\* the whole response to the last frame was read: one byte, or one or two
\* blocks of 132 bytes for a SPI read
Answered ==
    IF tx[1] = OP_READSPI THEN rxBytes \in {132, 264} ELSE rxBytes = 1

\* C18 (strict request/response alternation): in dump, flash and restore a
\* step writes a whole frame or reads from the port, never both; the first
\* frame is written before anything is read, every later frame only after
\* the whole response to the frame before it was read and classified; a read
\* is made only for a frame that is on the wire, and never beyond one byte
\* (two blocks for a SPI read); at most one frame is without its response.
C18_Alternation ==
    /\ [](op \in {"dump", "flash", "restore"} =>
            /\ (txBytes = 0 => rxBytes = 0 /\ reads = 0 /\ rx = <<>>)
            /\ SumOver(sent, Opcodes) - SumOver(acked, Opcodes) - fileChunks
                  \in {0, 1})
    /\ [][(op \in {"dump", "flash", "restore"}) =>
            /\ (txBytes' # txBytes =>
                    /\ txBytes' = txBytes + Len(tx')
                    /\ rxBytes' = 0 /\ reads' = 0
                    /\ rx' = rx
                    /\ (txBytes > 0 =>
                            Answered /\ ret \in {"Ok(true)", "Ok(Some)"}))
            /\ (reads' > reads =>
                    /\ txBytes' = txBytes /\ tx' = tx
                    /\ txBytes > 0
                    /\ ret = "none"
                    /\ rxBytes' \in {rxBytes,
                                     rxBytes + (IF tx[1] = OP_READSPI
                                                THEN 132 ELSE 1)}
                    /\ reads' <= (IF tx[1] = OP_READSPI THEN 2 ELSE 1))]_vars

\* C18 witness: the second write-flash frame is on the wire, written after
\* the erase frame and the first write-flash frame were each answered
C18_Witness ==
    /\ op = "flash"
    /\ sent[OP_ERASE] = 1 /\ acked[OP_ERASE] = 1
    /\ sent[OP_WRITEFLASH] = 2 /\ acked[OP_WRITEFLASH] = 1
    /\ pc = "flash_recv"
    /\ rxBytes = 0
    /\ txBytes = 5 + 2 * 132

\* ------------------------------------------------------------ region disjointness
\* the byte ranges [lo, hi] the claim names as lying outside every region
ClaimedGaps == << <<3932160, 3936255>>, <<3977216, 4030463>>,
                  <<4071424, 4194303>> >>

\* the regions of table t are pairwise disjoint
PairwiseDisjoint(t) ==
    \A i, j \in DOMAIN t :
        i < j => \/ t[i].offset + t[i].size <= t[j].offset
                 \/ t[j].offset + t[j].size <= t[i].offset

\* no region of t meets a claimed gap, and regions and gaps together
\* measure the whole image: the gaps are the bytes outside every region
GapsAreComplement(t) ==
    /\ \A g \in DOMAIN ClaimedGaps : \A i \in DOMAIN t :
            \/ t[i].offset + t[i].size <= ClaimedGaps[g][1]
            \/ ClaimedGaps[g][2] < t[i].offset
    /\ UnionMeasure(t)
          + (ClaimedGaps[1][2] - ClaimedGaps[1][1] + 1)
          + (ClaimedGaps[2][2] - ClaimedGaps[2][1] + 1)
          + (ClaimedGaps[3][2] - ClaimedGaps[3][1] + 1) = SPI_FLASH_SIZE

RECURSIVE SizeBefore(_, _)
\* bytes of the regions of t before region i, in table order
SizeBefore(t, i) == IF i <= 1 THEN 0 ELSE SizeBefore(t, i - 1) + t[i - 1].size

\* C19 (region disjointness in a full restore): the nine regions of the
\* full-restore table are pairwise disjoint and the bytes outside all of them
\* are 3,932,160..3,936,255, 3,977,216..4,030,463 and 4,071,424..4,194,303;
\* the frame written as number k (k = 0, 1, ...) carries the 128 image bytes
\* at position 128 * k of the regions laid end to end in table order, so
\* every image byte is sent at most once and a byte outside every region is
\* in no frame.
C19_Disjoint ==
    /\ [](FullTableSelected =>
            /\ Len(spi_ranges) = 9
            /\ PairwiseDisjoint(spi_ranges)
            /\ GapsAreComplement(spi_ranges)
            /\ (txBytes > 0 =>
                    \A g \in DOMAIN ClaimedGaps :
                        txArg + 127 < ClaimedGaps[g][1]
                            \/ ClaimedGaps[g][2] < txArg))
    /\ [][(FullTableSelected /\ txBytes' # txBytes) =>
            /\ spi_ranges[rangeIdx].offset <= txArg'
            /\ txArg' + 128 <= spi_ranges[rangeIdx].offset
                                   + spi_ranges[rangeIdx].size
            /\ SizeBefore(spi_ranges, rangeIdx)
                  + (txArg' - spi_ranges[rangeIdx].offset)
                  = 128 * SumOver(sent, Opcodes)
            /\ \A j \in 1..128 : tx'[3 + j] = ImageByte(img, txArg' + j - 1)]_vars

\* C19 witness: a full restore ran to its end and returned Ok(true), the last
\* frame being the last chunk of region 0x4C, which ends where region 0x47
\* starts
C19_Witness ==
    /\ FullTableSelected
    /\ result = "Ok(true)"
    /\ SumOver(sent, Opcodes) = 31360
    /\ tx[1] = 76
    /\ txArg = 3887104 - 128

\* ------------------------------------------------------------ termination
\* C20 (termination): every operation ends, whatever the device answers and
\* whichever reads or writes fail.  dump_spi_flash writes at most 32768
\* requests, the k-th (k = 0, 1, ...) for chunk index k; flash_firmware writes
\* at most one erase frame and 472 write frames, the k-th write frame for
\* byte offset 128 * k; restore_spi_flash writes at most 31,360 frames, 32
\* when calibration-only, the k-th for the chunk at position 128 * k of its
\* regions in table order.  No chunk gets a second frame.
C20_Termination ==
    /\ <>(pc = "exited")
    /\ [][pc' # pc /\ pc' \in Positions]_vars
    /\ [](/\ (op = "dump" =>
                  /\ sent[OP_READSPI] <= 32768
                  /\ SumOver(sent, Opcodes) = sent[OP_READSPI])
           /\ (op = "flash" =>
                  /\ sent[OP_ERASE] <= 1
                  /\ sent[OP_WRITEFLASH] <= 472
                  /\ SumOver(sent, Opcodes) = sent[OP_ERASE] + sent[OP_WRITEFLASH])
           /\ (op = "restore" =>
                  SumOver(sent, Opcodes) <= (IF calib_only THEN 32 ELSE 31360)))
    /\ [][txBytes' # txBytes =>
            /\ (op = "dump" => txArg' = sent[OP_READSPI])
            /\ (op = "flash" /\ tx'[1] = OP_WRITEFLASH =>
                    txArg' = 128 * sent[OP_WRITEFLASH])
            /\ (op = "flash" /\ tx'[1] = OP_ERASE => txBytes = 0)
            /\ (op = "restore" =>
                    SizeBefore(spi_ranges, rangeIdx)
                        + (txArg' - spi_ranges[rangeIdx].offset)
                        = 128 * SumOver(sent, Opcodes))]_vars

\* C20 witness: a flash ended after the erase frame and all 472 write frames,
\* the last for byte offset 60,288
C20_Witness ==
    /\ op = "flash"
    /\ pc = "exited"
    /\ sent[OP_ERASE] = 1
    /\ sent[OP_WRITEFLASH] = 472
    /\ txArg = 60288
    /\ exit = 0

====
